---------------------------- MODULE Spec2Model ----------------------------
(***************************************************************************)
(* Model of the streaming Intel HEX record decoder of                      *)
(* tools/hex-crypt/ihex_parser.c: the file-scope decoder state, the three  *)
(* entry points ihex_reset_state, ihex_set_callback_func and ihex_parser,  *)
(* and the per-byte state machine inside ihex_parser.                      *)
(*                                                                         *)
(* Bytes are natural numbers 0..255 (their ASCII codes).  One call of      *)
(* ihex_parser is a call step, one step per iteration of its for loop and  *)
(* a return step; pc tells whether a call is in progress.                  *)
(***************************************************************************)
EXTENDS Integers, Sequences, FiniteSets, TLC

(***************************************************************************)
(* Program constants.                                                      *)
(***************************************************************************)
START_CODE_STATE    == 0
BYTE_COUNT_0_STATE  == 1
BYTE_COUNT_1_STATE  == 2
ADDR_0_STATE        == 3
ADDR_1_STATE        == 4
ADDR_2_STATE        == 5
ADDR_3_STATE        == 6
RECORD_TYPE_0_STATE == 7
RECORD_TYPE_1_STATE == 8
DATA_STATE          == 9
CHECKSUM_0_STATE    == 10
CHECKSUM_1_STATE    == 11

INVALID_HEX_CHAR    == 120
IHEX_DATA_SIZE      == 255

CH_NUL   == 0
CH_LF    == 10
CH_CR    == 13
CH_COLON == 58
CH_0     == 48
CH_9     == 57
CH_A     == 65
CH_F     == 70
CH_a     == 97
CH_z     == 122

NULL_FP  == 0
USER_FP  == 1

(***************************************************************************)
(* Fixed-width arithmetic of the C code.                                   *)
(***************************************************************************)
U8(x)  == x % 256
U16(x) == x % 65536

\* A uint32_t is kept as its two 16-bit words <<high, low>>.
W32(high, low) == <<high, low>>

RECURSIVE BitOr(_, _)
BitOr(a, b) ==
    IF a = 0 THEN b
    ELSE IF b = 0 THEN a
    ELSE (IF a % 2 = 1 \/ b % 2 = 1 THEN 1 ELSE 0) + 2 * BitOr(a \div 2, b \div 2)

Shl(x, n) == x * 2^n
Shr(x, n) == x \div 2^n

(***************************************************************************)
(* HexToDec: '0'-'9' -> 0..9, 'A'-'F' -> 10..15, 'a'-'z' -> 10..35,        *)
(* anything else -> INVALID_HEX_CHAR.                                      *)
(***************************************************************************)
HexToDec(h) ==
    IF h >= CH_0 /\ h <= CH_9 THEN h - CH_0
    ELSE IF h >= CH_A /\ h <= CH_F THEN h - CH_A + 10
    ELSE IF h >= CH_a /\ h <= CH_z THEN h - CH_a + 10
    ELSE INVALID_HEX_CHAR

(***************************************************************************)
(* TRANSFORM_ADDR: segmented (hi << 4) + lo, linear (hi << 16) | lo, both  *)
(* in uint32_t.  addr_hi and addr_lo are uint16_t, so neither overflows:   *)
(* (hi << 4) + lo <= 0x10FFEF, and (hi << 16) | lo has hi as its high word *)
(* and lo as its low word.                                                 *)
(***************************************************************************)
\* TRANSFORM_ADDR ignoring the mode, one way and the other.
TRANSFORM_ADDR_AlwaysSegmented(seg, addr_hi, addr_lo) ==
    LET v == Shl(addr_hi, 4) + addr_lo IN W32(v \div 65536, v % 65536)

TRANSFORM_ADDR_AlwaysLinear(seg, addr_hi, addr_lo) ==
    W32(addr_hi, BitOr(0, addr_lo))

TRANSFORM_ADDR(seg, addr_hi, addr_lo) ==
    IF seg
    THEN LET v == Shl(addr_hi, 4) + addr_lo IN W32(v \div 65536, v % 65536)
    ELSE W32(addr_hi, BitOr(0, addr_lo))

VARIABLES
    state, byte_count, address_lo, address_hi, ex_segment_addr_mode,
    record_type, data, data_size_in_nibble, temp_cs, calc_cs, calc_cs_toogle,
    callback_fp,
    pc, steambuf, i, ret,
    plan, entry, calls, fed, lastop, sess

decoder == <<state, byte_count, address_lo, address_hi, ex_segment_addr_mode,
             record_type, data, data_size_in_nibble, temp_cs, calc_cs,
             calc_cs_toogle>>
vars == <<state, byte_count, address_lo, address_hi, ex_segment_addr_mode,
          record_type, data, data_size_in_nibble, temp_cs, calc_cs,
          calc_cs_toogle, callback_fp, pc, steambuf, i, ret, plan, entry, calls,
          fed, lastop, sess>>


(***************************************************************************)
(* The decoder's file-scope variables as one record, so that the loop body *)
(* is an operator from decoder state to decoder state.                     *)
(***************************************************************************)
P == [state |-> state, byte_count |-> byte_count, address_lo |-> address_lo,
      address_hi |-> address_hi, ex_segment_addr_mode |-> ex_segment_addr_mode,
      record_type |-> record_type, data |-> data,
      data_size_in_nibble |-> data_size_in_nibble, temp_cs |-> temp_cs,
      calc_cs |-> calc_cs, calc_cs_toogle |-> calc_cs_toogle]

ZeroData == [k \in 0 .. (IHEX_DATA_SIZE - 1) |-> 0]

\* Static initialisation of the file-scope variables (zero-initialised).
StaticInit ==
    [state |-> 0, byte_count |-> 0, address_lo |-> 0, address_hi |-> 0,
     ex_segment_addr_mode |-> FALSE, record_type |-> 0, data |-> ZeroData,
     data_size_in_nibble |-> 0, temp_cs |-> 0, calc_cs |-> 0,
     calc_cs_toogle |-> FALSE]

\* What one loop iteration yields: the new decoder state, whether the loop
\* goes on ("continue") or the function returns ("true" / "false"), and the
\* callback invocation made, if any.
Outcome(p, out) ==
    [p |-> p, out |-> out, called |-> FALSE, address |-> W32(0, 0), length |-> 0]

OutcomeCall(p, out, address, length) ==
    [p |-> p, out |-> out, called |-> TRUE, address |-> address, length |-> length]

\* FoldChecksum with calc_cs assigned ("=") instead of accumulated ("+=").
FoldChecksum_Assigns(p, hc) ==
    IF ~p.calc_cs_toogle
    THEN [p EXCEPT !.temp_cs = hc, !.calc_cs_toogle = TRUE]
    ELSE [p EXCEPT !.calc_cs = U8(BitOr(Shl(p.temp_cs, 4), hc)),
                   !.calc_cs_toogle = FALSE]

\* Lines 151-172 for a state in BYTE_COUNT_0 .. CHECKSUM_1 and a valid digit
\* hc: buffer the high nibble, or fold the completed byte into calc_cs.
FoldChecksum(p, hc) ==
    IF ~p.calc_cs_toogle
    THEN [p EXCEPT !.temp_cs = hc, !.calc_cs_toogle = TRUE]
    ELSE [p EXCEPT !.calc_cs = U8(p.calc_cs + BitOr(Shl(p.temp_cs, 4), hc)),
                   !.calc_cs_toogle = FALSE]

\* StartCodeState skipping CR but not LF.
StartCodeState_SkipsOnlyCR(p, c) ==
    IF c = CH_CR THEN Outcome(p, "continue")
    ELSE IF c = CH_COLON
    THEN Outcome([p EXCEPT !.byte_count = 0, !.record_type = 0,
                           !.address_lo = 0, !.data = ZeroData,
                           !.data_size_in_nibble = 0,
                           !.state = U8(p.state + 1)], "continue")
    ELSE Outcome(p, "false")

\* StartCodeState clearing address_hi together with address_lo at ':'.
StartCodeState_ClearsAddressHi(p, c) ==
    IF c = CH_CR \/ c = CH_LF THEN Outcome(p, "continue")
    ELSE IF c = CH_COLON
    THEN Outcome([p EXCEPT !.byte_count = 0, !.record_type = 0,
                           !.address_lo = 0, !.address_hi = 0, !.data = ZeroData,
                           !.data_size_in_nibble = 0,
                           !.state = U8(p.state + 1)], "continue")
    ELSE Outcome(p, "false")

\* case START_CODE_STATE (p already has calc_cs and the toggle cleared).
StartCodeState(p, c) ==
    IF c = CH_CR \/ c = CH_LF THEN Outcome(p, "continue")
    ELSE IF c = CH_COLON
    THEN Outcome([p EXCEPT !.byte_count = 0, !.record_type = 0,
                           !.address_lo = 0, !.data = ZeroData,
                           !.data_size_in_nibble = 0,
                           !.state = U8(p.state + 1)], "continue")
    ELSE Outcome(p, "false")

\* case BYTE_COUNT_0_STATE, BYTE_COUNT_1_STATE.
ByteCountState(p, hc) ==
    Outcome([p EXCEPT !.byte_count = U8(BitOr(Shl(p.byte_count, 4), hc)),
                      !.state = U8(p.state + 1)], "continue")

\* case ADDR_0_STATE .. ADDR_3_STATE.
AddrState(p, hc) ==
    Outcome([p EXCEPT !.address_lo = U16(BitOr(Shl(p.address_lo, 4), hc)),
                      !.state = U8(p.state + 1)], "continue")

\* case RECORD_TYPE_0_STATE.
RecordType0State(p, hc) ==
    IF hc # 0 THEN Outcome(p, "false")
    ELSE Outcome([p EXCEPT !.state = U8(p.state + 1)], "continue")

\* RecordType1State entering DATA even when the byte count is 0.
RecordType1State_NoSkip(p, hc) ==
    IF ~(hc <= 5 \/ hc = 14) THEN Outcome(p, "false")
    ELSE LET q == [p EXCEPT !.record_type = hc] IN
         IF q.byte_count > IHEX_DATA_SIZE THEN Outcome(q, "false")
         ELSE Outcome([q EXCEPT !.state = U8(q.state + 1)], "continue")

\* RecordType1State accepting every second type digit up to 0xE.
RecordType1State_UpToE(p, hc) ==
    IF ~(hc <= 14) THEN Outcome(p, "false")
    ELSE LET q == [p EXCEPT !.record_type = hc] IN
         IF q.byte_count = 0
         THEN Outcome([q EXCEPT !.state = CHECKSUM_0_STATE], "continue")
         ELSE IF q.byte_count > IHEX_DATA_SIZE THEN Outcome(q, "false")
         ELSE Outcome([q EXCEPT !.state = U8(q.state + 1)], "continue")

\* case RECORD_TYPE_1_STATE.
RecordType1State(p, hc) ==
    IF ~(hc <= 5 \/ hc = 14) THEN Outcome(p, "false")
    ELSE LET q == [p EXCEPT !.record_type = hc] IN
         IF q.byte_count = 0
         THEN Outcome([q EXCEPT !.state = CHECKSUM_0_STATE], "continue")
         ELSE IF q.byte_count > IHEX_DATA_SIZE THEN Outcome(q, "false")
         ELSE Outcome([q EXCEPT !.state = U8(q.state + 1)], "continue")

\* DataState storing the nibble without shifting in the one before it.
DataState_DropsHighNibble(p, hc) ==
    LET b_index == U8(Shr(p.data_size_in_nibble, 1))
        d       == [p.data EXCEPT ![b_index] = hc]
        n       == U16(p.data_size_in_nibble + 1)
        q       == [p EXCEPT !.data = d, !.data_size_in_nibble = n]
    IN  IF Shr(n, 1) >= p.byte_count
        THEN Outcome([q EXCEPT !.state = U8(q.state + 1)], "continue")
        ELSE Outcome(q, "continue")

\* DataState leaving DATA one payload byte early (byte count off by one).
DataState_LeavesOneEarly(p, hc) ==
    LET b_index == U8(Shr(p.data_size_in_nibble, 1))
        d       == [p.data EXCEPT ![b_index] = U8(BitOr(Shl(p.data[b_index], 4), hc))]
        n       == U16(p.data_size_in_nibble + 1)
        q       == [p EXCEPT !.data = d, !.data_size_in_nibble = n]
    IN  IF Shr(n, 1) >= p.byte_count - 1
        THEN Outcome([q EXCEPT !.state = U8(q.state + 1)], "continue")
        ELSE Outcome(q, "continue")

\* DataState leaving DATA one nibble late (">" for ">=").
DataState_LeavesOneLate(p, hc) ==
    LET b_index == U8(Shr(p.data_size_in_nibble, 1))
        d       == [p.data EXCEPT ![b_index] = U8(BitOr(Shl(p.data[b_index], 4), hc))]
        n       == U16(p.data_size_in_nibble + 1)
        q       == [p EXCEPT !.data = d, !.data_size_in_nibble = n]
    IN  IF Shr(n, 1) > p.byte_count
        THEN Outcome([q EXCEPT !.state = U8(q.state + 1)], "continue")
        ELSE Outcome(q, "continue")

\* case DATA_STATE.  b_index is a uint8_t; the guards of RECORD_TYPE_1 and of
\* this state keep it below IHEX_DATA_SIZE.
DataState(p, hc) ==
    LET b_index == U8(Shr(p.data_size_in_nibble, 1))
        d       == [p.data EXCEPT ![b_index] = U8(BitOr(Shl(p.data[b_index], 4), hc))]
        n       == U16(p.data_size_in_nibble + 1)
        q       == [p EXCEPT !.data = d, !.data_size_in_nibble = n]
    IN  IF Shr(n, 1) >= p.byte_count
        THEN Outcome([q EXCEPT !.state = U8(q.state + 1)], "continue")
        ELSE Outcome(q, "continue")

\* case CHECKSUM_0_STATE.
Checksum0State(p, hc) ==
    Outcome([p EXCEPT !.state = U8(p.state + 1)], "continue")

\* Checksum1State ignoring what the callback returns.
Checksum1State_IgnoresResult(p, fp, cbres) ==
    IF Shl(p.byte_count, 1) # p.data_size_in_nibble THEN Outcome(p, "false")
    ELSE IF p.calc_cs # 0 THEN Outcome(p, "false")
    ELSE LET hi == U16(BitOr(Shl(p.data[0], 8), p.data[1]))
             q  == IF p.record_type = 2
                   THEN [p EXCEPT !.address_hi = hi, !.ex_segment_addr_mode = TRUE]
                   ELSE IF p.record_type = 4
                   THEN [p EXCEPT !.address_hi = hi, !.ex_segment_addr_mode = FALSE]
                   ELSE p
         IN  IF q.record_type = 0 /\ fp # NULL_FP
             THEN OutcomeCall([q EXCEPT !.state = START_CODE_STATE], "continue",
                              TRANSFORM_ADDR(q.ex_segment_addr_mode, q.address_hi,
                                             q.address_lo),
                              Shr(q.data_size_in_nibble, 1))
             ELSE Outcome([q EXCEPT !.state = START_CODE_STATE], "continue")

\* Checksum1State dispatching on the first payload byte instead of the
\* record type.
Checksum1State_TypeFromPayload(p, fp, cbres) ==
    IF Shl(p.byte_count, 1) # p.data_size_in_nibble THEN Outcome(p, "false")
    ELSE IF p.calc_cs # 0 THEN Outcome(p, "false")
    ELSE LET hi == U16(BitOr(Shl(p.data[0], 8), p.data[1]))
             q  == IF p.data[0] = 2
                   THEN [p EXCEPT !.address_hi = hi, !.ex_segment_addr_mode = TRUE]
                   ELSE IF p.data[0] = 4
                   THEN [p EXCEPT !.address_hi = hi, !.ex_segment_addr_mode = FALSE]
                   ELSE p
         IN  IF q.data[0] = 0 /\ fp # NULL_FP
             THEN LET address == TRANSFORM_ADDR(q.ex_segment_addr_mode,
                                                q.address_hi, q.address_lo)
                      length  == Shr(q.data_size_in_nibble, 1)
                  IN  IF ~cbres
                      THEN OutcomeCall(q, "false", address, length)
                      ELSE OutcomeCall([q EXCEPT !.state = START_CODE_STATE],
                                       "continue", address, length)
             ELSE Outcome([q EXCEPT !.state = START_CODE_STATE], "continue")

\* Checksum1State storing the address of a type-2/type-4 record before the
\* byte-count and checksum tests.
Checksum1State_StoresFirst(p, fp, cbres) ==
    LET hi == U16(BitOr(Shl(p.data[0], 8), p.data[1]))
        q  == IF p.record_type = 2
              THEN [p EXCEPT !.address_hi = hi, !.ex_segment_addr_mode = TRUE]
              ELSE IF p.record_type = 4
              THEN [p EXCEPT !.address_hi = hi, !.ex_segment_addr_mode = FALSE]
              ELSE p
    IN  IF Shl(q.byte_count, 1) # q.data_size_in_nibble THEN Outcome(q, "false")
        ELSE IF q.calc_cs # 0 THEN Outcome(q, "false")
        ELSE IF q.record_type = 0 /\ fp # NULL_FP
        THEN LET address == TRANSFORM_ADDR(q.ex_segment_addr_mode,
                                           q.address_hi, q.address_lo)
                 length  == Shr(q.data_size_in_nibble, 1)
             IN  IF ~cbres
                 THEN OutcomeCall(q, "false", address, length)
                 ELSE OutcomeCall([q EXCEPT !.state = START_CODE_STATE],
                                  "continue", address, length)
        ELSE Outcome([q EXCEPT !.state = START_CODE_STATE], "continue")

\* case CHECKSUM_1_STATE; cbres is what the callback returns if it is called.
Checksum1State(p, fp, cbres) ==
    IF Shl(p.byte_count, 1) # p.data_size_in_nibble THEN Outcome(p, "false")
    ELSE IF p.calc_cs # 0 THEN Outcome(p, "false")
    ELSE LET hi == U16(BitOr(Shl(p.data[0], 8), p.data[1]))
             q  == IF p.record_type = 2
                   THEN [p EXCEPT !.address_hi = hi, !.ex_segment_addr_mode = TRUE]
                   ELSE IF p.record_type = 4
                   THEN [p EXCEPT !.address_hi = hi, !.ex_segment_addr_mode = FALSE]
                   ELSE p
         IN  IF q.record_type = 0 /\ fp # NULL_FP
             THEN LET address == TRANSFORM_ADDR(q.ex_segment_addr_mode,
                                                q.address_hi, q.address_lo)
                      length  == Shr(q.data_size_in_nibble, 1)
                  IN  IF ~cbres
                      THEN OutcomeCall(q, "false", address, length)
                      ELSE OutcomeCall([q EXCEPT !.state = START_CODE_STATE],
                                       "continue", address, length)
             ELSE Outcome([q EXCEPT !.state = START_CODE_STATE], "continue")

\* switch (state), lines 174-300.
SwitchState(p, c, hc, fp, cbres) ==
    CASE p.state = START_CODE_STATE -> StartCodeState(p, c)
      [] p.state \in {BYTE_COUNT_0_STATE, BYTE_COUNT_1_STATE} -> ByteCountState(p, hc)
      [] p.state \in ADDR_0_STATE .. ADDR_3_STATE -> AddrState(p, hc)
      [] p.state = RECORD_TYPE_0_STATE -> RecordType0State(p, hc)
      [] p.state = RECORD_TYPE_1_STATE -> RecordType1State(p, hc)
      [] p.state = DATA_STATE -> DataState(p, hc)
      [] p.state = CHECKSUM_0_STATE -> Checksum0State(p, hc)
      [] p.state = CHECKSUM_1_STATE -> Checksum1State(p, fp, cbres)
      [] OTHER -> Outcome(p, "false")

\* LoopBody without the test for the null byte.
LoopBody_NoNulTest(p, c, fp, cbres) ==
    IF p.state = START_CODE_STATE
    THEN SwitchState([p EXCEPT !.calc_cs = 0, !.calc_cs_toogle = FALSE],
                     c, 0, fp, cbres)
    ELSE IF p.state >= BYTE_COUNT_0_STATE /\ p.state <= CHECKSUM_1_STATE
    THEN LET hc == HexToDec(c) IN
         IF hc = INVALID_HEX_CHAR THEN Outcome(p, "false")
         ELSE SwitchState(FoldChecksum(p, hc), c, hc, fp, cbres)
    ELSE SwitchState(p, c, 0, fp, cbres)

\* One iteration of the for loop of ihex_parser on byte c (lines 144-300).
LoopBody(p, c, fp, cbres) ==
    IF c = CH_NUL THEN Outcome(p, "true")
    ELSE IF p.state = START_CODE_STATE
    THEN SwitchState([p EXCEPT !.calc_cs = 0, !.calc_cs_toogle = FALSE],
                     c, 0, fp, cbres)
    ELSE IF p.state >= BYTE_COUNT_0_STATE /\ p.state <= CHECKSUM_1_STATE
    THEN LET hc == HexToDec(c) IN
         IF hc = INVALID_HEX_CHAR THEN Outcome(p, "false")
         ELSE SwitchState(FoldChecksum(p, hc), c, hc, fp, cbres)
    ELSE SwitchState(p, c, 0, fp, cbres)

\* ihex_reset_state leaving the addressing state as it is.
ResetState_KeepsAddressing(p) ==
    [p EXCEPT !.state = 0, !.address_lo = 0]

\* ihex_reset_state, lines 124-130.
ResetState(p) ==
    [p EXCEPT !.state = 0, !.address_lo = 0, !.address_hi = 0,
              !.ex_segment_addr_mode = FALSE]

(***************************************************************************)
(* Input streams.  A record descriptor gives the fields of one line        *)
(* ":BBAAAATT[DD...]CC"; bc is the byte-count FIELD, which need not equal   *)
(* the number of payload bytes, and cs the checksum FIELD, which need not  *)
(* be right.  lc selects lower-case hex digits.                            *)
(***************************************************************************)
MaxRecs == 2

HexDigit(n, lc) == IF n < 10 THEN CH_0 + n ELSE IF lc THEN CH_a + (n - 10) ELSE CH_A + (n - 10)
Hex2(b, lc) == <<HexDigit(b \div 16, lc), HexDigit(b % 16, lc)>>

HexBytes(bs, lc) ==
    [j \in 1 .. 2 * Len(bs) |->
        IF j % 2 = 1 THEN HexDigit(bs[(j + 1) \div 2] \div 16, lc)
        ELSE HexDigit(bs[j \div 2] % 16, lc)]

RECURSIVE SumSeq(_)
SumSeq(bs) ==
    IF Len(bs) = 0 THEN 0
    ELSE IF Len(bs) = 1 THEN bs[1]
    ELSE LET h == Len(bs) \div 2 IN
         SumSeq(SubSeq(bs, 1, h)) + SumSeq(SubSeq(bs, h + 1, Len(bs)))

\* Sum of the decoded bytes of a record, checksum field included.
RecSum(r) == r.bc + (r.addr \div 256) + (r.addr % 256) + r.type + SumSeq(r.payload) + r.cs

GoodCs(bc, addr, type, payload) ==
    (256 - ((bc + (addr \div 256) + (addr % 256) + type + SumSeq(payload)) % 256)) % 256

Rec(type, addr, payload) ==
    [bc |-> Len(payload), addr |-> addr, type |-> type, payload |-> payload,
     cs |-> GoodCs(Len(payload), addr, type, payload), lc |-> FALSE]

Line(r) ==
    <<CH_COLON>> \o Hex2(r.bc, r.lc) \o Hex2(r.addr \div 256, r.lc)
      \o Hex2(r.addr % 256, r.lc) \o Hex2(r.type, r.lc)
      \o HexBytes(r.payload, r.lc) \o Hex2(r.cs, r.lc)

CRLF == <<CH_CR, CH_LF>>

\* A well-formed record: type 0..5, byte count = payload length, byte sum 0.
WellFormed(r) ==
    /\ r.type \in 0 .. 5
    /\ r.bc = Len(r.payload)
    /\ RecSum(r) % 256 = 0

DataRecs ==
    { Rec(0, 32, <<>>), Rec(0, 32, <<255>>), Rec(0, 48, <<2, 51, 122>>),
      Rec(0, 65535, <<255>>), [Rec(0, 43981, <<239, 1>>) EXCEPT !.lc = TRUE] }
AddrRecs ==
    { Rec(t, 0, pl) : t \in {2, 4}, pl \in {<<16, 0>>, <<255, 255>>} }
      \cup { Rec(4, 0, <<>>), Rec(2, 4660, <<2>>) }
InertRecs ==
    { Rec(1, 0, <<>>), Rec(3, 0, <<18, 52, 0, 0>>), Rec(5, 0, <<171, 205>>) }
WFRecs == DataRecs \cup AddrRecs \cup InertRecs

\* An item of a stream: a line, optionally with the character at position
\* sub replaced by ch (ins = FALSE) or with ch inserted before it (ins =
\* TRUE), followed by the terminator term.
Item(r, sub, ch, ins, term) ==
    [rec |-> r, sub |-> sub, ch |-> ch, ins |-> ins, term |-> term]
Plain(r) == Item(r, 0, 0, FALSE, CRLF)

ItemLine(it) ==
    LET l == Line(it.rec) IN
    IF it.sub = 0 THEN l
    ELSE IF it.ins THEN SubSeq(l, 1, it.sub - 1) \o <<it.ch>> \o SubSeq(l, it.sub, Len(l))
    ELSE [l EXCEPT ![it.sub] = it.ch]

RECURSIVE Render(_)
Render(pl) ==
    IF pl = <<>> THEN <<>>
    ELSE ItemLine(Head(pl)) \o Head(pl).term \o Render(Tail(pl))

\* Streams of well-formed records, each followed by CR LF.
RECURSIVE SeqsUpTo(_, _)
SeqsUpTo(S, n) ==
    IF n = 0 THEN {<<>>}
    ELSE LET T == SeqsUpTo(S, n - 1) IN T \cup { <<x>> \o t : x \in S, t \in { u \in T : Len(u) = n - 1 } }

WFPlans == { pl \in SeqsUpTo({Plain(r) : r \in WFRecs}, MaxRecs) : pl # <<>> }

\* Lines with one character replaced: NUL, CR, ':', and letters that are no
\* hexadecimal digits ('G', 'g', 'h', 'x').
RecC9a == Rec(0, 48, <<2, 51, 122>>)
RecEOF == Rec(1, 0, <<>>)
RecSeg == Rec(2, 0, <<16, 0>>)
RecLin == Rec(4, 0, <<16, 0>>)
RecD20 == Rec(0, 32, <<255>>)

SubChars == {CH_NUL, CH_CR, CH_COLON, 71, 103, 104, INVALID_HEX_CHAR}
SubItems ==
    { Item(r, k, ch, FALSE, CRLF) :
        r \in {RecC9a, RecEOF, RecLin}, k \in 1 .. 17, ch \in SubChars }

\* Records whose checksum field is off, or one payload byte of which is
\* changed while the checksum field is kept.
BadCsRecs ==
    { [r EXCEPT !.cs = (r.cs + d) % 256] : r \in WFRecs, d \in {1, 128} }
FlipRecs ==
    UNION { { [r EXCEPT !.payload[k] = (r.payload[k] + d) % 256] :
                k \in 1 .. Len(r.payload), d \in {1, 16} } : r \in WFRecs }

\* Records that declare one payload byte more than they carry.
ShortRecs ==
    { [r EXCEPT !.bc = r.bc + 1] : r \in {RecC9a, RecSeg, RecD20, RecEOF} }
      \cup { [bc |-> 4, addr |-> 256, type |-> 0, payload |-> <<17, 34, 51>>,
              cs |-> GoodCs(4, 256, 0, <<17, 34, 51>>), lc |-> FALSE] }

\* The stream ":0000010" NUL "1FF".
NulExample == Item([bc |-> 0, addr |-> 1, type |-> 1, payload |-> <<>>, cs |-> 255, lc |-> FALSE],
                   9, CH_NUL, TRUE, <<>>)

\* Records whose type byte is none of 00 .. 05: 0E (which line 223 lets
\* pass), 06 and 0F (second type digit out of range), 10 and 1E (first type
\* digit not zero).  Their checksum fields are right.
RecTypeE == Rec(14, 256, <<2, 51>>)
TypeRecs ==
    { RecTypeE, Rec(14, 0, <<>>), Rec(6, 0, <<>>), Rec(15, 0, <<1>>),
      Rec(16, 0, <<>>), Rec(30, 0, <<1>>) }

\* A data record of IHEX_DATA_SIZE payload bytes 1, 2, .. 255.
RecLong == Rec(0, 0, [k \in 1 .. IHEX_DATA_SIZE |-> k])

SpecialItems ==
    { it \in SubItems : it.sub <= Len(Line(it.rec)) }
      \cup { Item(r, 0, 0, FALSE, t) : r \in BadCsRecs \cup FlipRecs \cup ShortRecs,
                                       t \in {<<>>, CRLF} }
      \cup { Item(r, 0, 0, FALSE, CRLF) : r \in TypeRecs }
      \cup { NulExample }

SpecialPlans ==
    { pre \o <<sp>> \o post :
        pre \in {<<>>, <<Plain(RecSeg)>>}, sp \in SpecialItems,
        post \in {<<>>, <<Plain(RecD20)>>} }

\* A data record of 128 payload bytes: its nibble count, 256, no longer fits
\* eight bits.
RecHalf == Rec(0, 32768, [k \in 1 .. 128 |-> 256 - k])

\* The longest record there is, written with upper-case and with lower-case
\* digits, and the 128-byte record.
LongPlans ==
    { <<Plain(RecLong)>>, <<Plain([RecLong EXCEPT !.lc = TRUE])>>, <<Plain(RecHalf)>> }

Plans == WFPlans \cup SpecialPlans \cup LongPlans

(***************************************************************************)
(* The state machine.  pc = "idle": no call of ihex_parser in progress;    *)
(* pc = "loop": inside its for loop, about to test i < size.  ret is the   *)
(* value the last call returned ("true" / "false", "none" before any call  *)
(* returned), and i the index at which it returned.                        *)
(* plan, entry, calls, fed and lastop record the caller's side: the stream *)
(* passed, the decoder's state, address_hi, mode and callback on entry,    *)
(* the callback invocations of the call (address, payload, length, result, *)
(* index of the byte that triggered it), whether a stream was fed, and the *)
(* last entry point called.  A behaviour of Spec is one decode pass: any   *)
(* number of ihex_reset_state and ihex_set_callback_func calls before and  *)
(* after one call of ihex_parser on a stream of Plans.                     *)
(***************************************************************************)
SetDecoder(p) ==
    /\ state' = p.state
    /\ byte_count' = p.byte_count
    /\ address_lo' = p.address_lo
    /\ address_hi' = p.address_hi
    /\ ex_segment_addr_mode' = p.ex_segment_addr_mode
    /\ record_type' = p.record_type
    /\ data' = p.data
    /\ data_size_in_nibble' = p.data_size_in_nibble
    /\ temp_cs' = p.temp_cs
    /\ calc_cs' = p.calc_cs
    /\ calc_cs_toogle' = p.calc_cs_toogle

\* The feed session: what happened since the decoder was initialised or last
\* reset.  base is the decoder state it began with, plan and stream the input
\* the caller feeds from, start the position in stream where the session
\* began, pos the number of bytes of stream handed to ihex_parser so far, hist
\* the consumer invocations of the calls that have returned before the
\* current one ("at" counted in stream), fails how many of these returned
\* false.
NewSession(p, at, pl, st) ==
    [base |-> p, plan |-> pl, stream |-> st, start |-> at, pos |-> at,
     hist |-> <<>>, fails |-> 0]

Init ==
    /\ state = 0 /\ byte_count = 0 /\ address_lo = 0 /\ address_hi = 0
    /\ ex_segment_addr_mode = FALSE /\ record_type = 0 /\ data = ZeroData
    /\ data_size_in_nibble = 0 /\ temp_cs = 0 /\ calc_cs = 0
    /\ calc_cs_toogle = FALSE
    /\ callback_fp = NULL_FP
    /\ pc = "idle" /\ steambuf = <<>> /\ i = 0 /\ ret = "none"
    /\ plan = <<>> /\ calls = <<>> /\ fed = FALSE /\ lastop = "init"
    /\ entry = [state |-> 0, address_hi |-> 0, seg |-> FALSE, fp |-> NULL_FP]
    /\ sess = NewSession(StaticInit, 0, <<>>, <<>>)

ihex_reset_state ==
    /\ pc = "idle"
    /\ SetDecoder(ResetState(P))
    /\ lastop' = "reset"
    /\ UNCHANGED <<callback_fp, pc, steambuf, i, ret, plan, entry, calls, fed, sess>>

ihex_set_callback_func ==
    /\ pc = "idle"
    /\ \E fp \in {NULL_FP, USER_FP} : callback_fp' = fp
    /\ lastop' = "set_callback"
    /\ UNCHANGED <<decoder, pc, steambuf, i, ret, plan, entry, calls, fed, sess>>

\* Entry of ihex_parser(steambuf, size): i = 0.
ihex_parser_call ==
    /\ pc = "idle"
    /\ ~fed
    /\ \E pl \in Plans :
          /\ plan' = pl
          /\ steambuf' = Render(pl)
    /\ i' = 0
    /\ pc' = "loop"
    /\ ret' = "none"
    /\ calls' = <<>>
    /\ entry' = [state |-> state, address_hi |-> address_hi,
                 seg |-> ex_segment_addr_mode, fp |-> callback_fp]
    /\ fed' = TRUE
    /\ lastop' = "feed"
    /\ UNCHANGED <<decoder, callback_fp, sess>>

\* The payload the callback can read: the first length bytes of data.
Payload(d, length) == [k \in 1 .. length |-> d[k - 1]]

\* One iteration of the loop on steambuf[i].
ihex_parser_loop ==
    /\ pc = "loop"
    /\ i < Len(steambuf)
    /\ LET c == steambuf[i + 1] IN
       \E cbres \in (IF LoopBody(P, c, callback_fp, TRUE).called THEN BOOLEAN ELSE {TRUE}) :
          LET s == LoopBody(P, c, callback_fp, cbres) IN
          /\ SetDecoder(s.p)
          /\ calls' = IF s.called
                      THEN Append(calls, [address |-> s.address,
                                          payload |-> Payload(s.p.data, s.length),
                                          length |-> s.length,
                                          result |-> cbres, at |-> i])
                      ELSE calls
          /\ IF s.out = "continue"
             THEN /\ i' = i + 1
                  /\ UNCHANGED <<pc, ret>>
             ELSE /\ pc' = "idle"
                  /\ ret' = s.out
                  /\ i' = i
    /\ UNCHANGED <<callback_fp, steambuf, plan, entry, fed, lastop, sess>>

\* i < size fails: return true (line 302).
ihex_parser_return ==
    /\ pc = "loop"
    /\ i >= Len(steambuf)
    /\ pc' = "idle"
    /\ ret' = "true"
    /\ UNCHANGED <<decoder, callback_fp, steambuf, i, plan, entry, calls, fed, lastop, sess>>

Next ==
    \/ ihex_reset_state
    \/ ihex_set_callback_func
    \/ ihex_parser_call
    \/ ihex_parser_loop
    \/ ihex_parser_return

Spec == Init /\ [][Next]_vars

(***************************************************************************)
(* Feeding a stream piece by piece.  The caller takes one stream and hands *)
(* it to ihex_parser in consecutive chunks, one call per chunk.  When a    *)
(* call has returned false it may call ihex_reset_state and go on with the *)
(* bytes that follow, or go on without a reset; after MaxFails + 1 calls   *)
(* of a session have returned false it feeds no more without a reset.  The *)
(* consumer is registered before the first call.                           *)
(***************************************************************************)
MaxChunk == 3
MaxFails == 1

\* The data record ":01002000FFE0" followed by a stray '0' before CR LF.
StrayDigit == Item(RecD20, 0, 0, FALSE, <<CH_0>> \o CRLF)

\* A type-4 record whose checksum field is off by one.
BadLin == Item([Rec(4, 0, <<255, 255>>) EXCEPT !.cs = (@ + 1) % 256], 0, 0, FALSE, CRLF)

SessionPlans ==
    { <<Plain(RecSeg), Plain(RecD20), Plain(Rec(3, 0, <<18, 52, 0, 0>>)), Plain(RecEOF),
        Plain(RecC9a)>>,
      <<Plain(Rec(4, 0, <<255, 255>>)), Plain(RecTypeE), Plain(Rec(5, 0, <<171, 205>>)),
        Plain(Rec(0, 65535, <<255>>))>>,
      <<Plain(RecSeg), BadLin, Plain(RecD20)>>,
      <<StrayDigit, Plain(RecD20)>> }

\* The consumer invocations of the call in progress or just returned, with
\* "at" counted in the session's stream.
CallsInStream ==
    [k \in 1 .. Len(calls) |->
        [calls[k] EXCEPT !.at = @ + (sess.pos - Len(steambuf))]]

\* ihex_reset_state before the first call or after a call that returned
\* false; a new session begins.
session_reset ==
    /\ pc = "idle"
    /\ ~fed \/ ret = "false"
    /\ SetDecoder(ResetState(P))
    /\ sess' = NewSession(ResetState(P), sess.pos, sess.plan, sess.stream)
    /\ calls' = <<>>
    /\ ret' = "none"
    /\ steambuf' = <<>>
    /\ lastop' = "reset"
    /\ UNCHANGED <<callback_fp, pc, i, plan, entry, fed>>

\* ihex_set_callback_func before the first byte is fed.
session_set_callback ==
    /\ pc = "idle"
    /\ ~fed
    /\ \E fp \in {NULL_FP, USER_FP} : callback_fp' = fp
    /\ lastop' = "set_callback"
    /\ UNCHANGED <<decoder, pc, steambuf, i, ret, plan, entry, calls, fed, sess>>

\* session_feed with the nibble toggle cleared on entry, as if it were a
\* local variable of ihex_parser.
session_feed_ClearsToggle ==
    /\ pc = "idle"
    /\ sess.fails + (IF ret = "false" THEN 1 ELSE 0) <= MaxFails
    /\ \E pl \in (IF fed THEN {sess.plan} ELSE SessionPlans) :
          LET st   == Render(pl)
              left == Len(st) - sess.pos
          IN  \E n \in 1 .. left :
                 /\ n <= MaxChunk \/ n = left
                 /\ plan' = pl
                 /\ steambuf' = SubSeq(st, sess.pos + 1, sess.pos + n)
                 /\ sess' = [sess EXCEPT !.plan = pl, !.stream = st,
                                         !.pos = @ + n,
                                         !.hist = @ \o CallsInStream,
                                         !.fails = @ + (IF ret = "false" THEN 1 ELSE 0)]
    /\ i' = 0
    /\ pc' = "loop"
    /\ ret' = "none"
    /\ calls' = <<>>
    /\ entry' = [state |-> state, address_hi |-> address_hi,
                 seg |-> ex_segment_addr_mode, fp |-> callback_fp]
    /\ fed' = TRUE
    /\ lastop' = "feed"
    /\ calc_cs_toogle' = FALSE
    /\ UNCHANGED <<state, byte_count, address_lo, address_hi, ex_segment_addr_mode,
                   record_type, data, data_size_in_nibble, temp_cs, calc_cs,
                   callback_fp>>

\* Entry of ihex_parser(steambuf, size) with the next chunk of the stream:
\* up to MaxChunk bytes, or all that is left of it.
session_feed ==
    /\ pc = "idle"
    /\ sess.fails + (IF ret = "false" THEN 1 ELSE 0) <= MaxFails
    /\ \E pl \in (IF fed THEN {sess.plan} ELSE SessionPlans) :
          LET st   == Render(pl)
              left == Len(st) - sess.pos
          IN  \E n \in 1 .. left :
                 /\ n <= MaxChunk \/ n = left
                 /\ plan' = pl
                 /\ steambuf' = SubSeq(st, sess.pos + 1, sess.pos + n)
                 /\ sess' = [sess EXCEPT !.plan = pl, !.stream = st,
                                         !.pos = @ + n,
                                         !.hist = @ \o CallsInStream,
                                         !.fails = @ + (IF ret = "false" THEN 1 ELSE 0)]
    /\ i' = 0
    /\ pc' = "loop"
    /\ ret' = "none"
    /\ calls' = <<>>
    /\ entry' = [state |-> state, address_hi |-> address_hi,
                 seg |-> ex_segment_addr_mode, fp |-> callback_fp]
    /\ fed' = TRUE
    /\ lastop' = "feed"
    /\ UNCHANGED <<decoder, callback_fp>>

NextSession ==
    \/ session_reset
    \/ session_set_callback
    \/ session_feed
    \/ ihex_parser_loop
    \/ ihex_parser_return

SpecSession == Init /\ [][NextSession]_vars

TypeOK ==
    /\ state \in 0 .. 11
    /\ byte_count \in 0 .. 255
    /\ address_lo \in 0 .. 65535
    /\ address_hi \in 0 .. 65535
    /\ calc_cs \in 0 .. 255
    /\ data_size_in_nibble \in 0 .. 510
    /\ pc \in {"idle", "loop"}

(***************************************************************************)
(* Reference reading of a stream of records, from the record format alone: *)
(* which consumer invocations a stream of accepted records calls for.      *)
(***************************************************************************)
RefAbs(hi, seg, lo) ==
    LET v == IF seg THEN hi * 16 + lo ELSE 0 IN
    IF seg THEN <<v \div 65536, v % 65536>> ELSE <<hi, lo>>

Pay16(pl) ==
    (IF Len(pl) >= 1 THEN pl[1] ELSE 0) * 256 + (IF Len(pl) >= 2 THEN pl[2] ELSE 0)

RECURSIVE Expected(_, _, _)
Expected(pl, hi, seg) ==
    IF pl = <<>> THEN <<>>
    ELSE LET r == Head(pl).rec IN
         IF r.type = 0
         THEN <<[address |-> RefAbs(hi, seg, r.addr), payload |-> r.payload,
                 length |-> Len(r.payload)]>> \o Expected(Tail(pl), hi, seg)
         ELSE IF r.type = 2 THEN Expected(Tail(pl), Pay16(r.payload), TRUE)
         ELSE IF r.type = 4 THEN Expected(Tail(pl), Pay16(r.payload), FALSE)
         ELSE Expected(Tail(pl), hi, seg)

\* The consumer invocations of the call, as the consumer saw them.
Observed == [k \in 1 .. Len(calls) |->
               [address |-> calls[k].address, payload |-> calls[k].payload,
                length |-> calls[k].length]]

IsPlainWF(it) == it.sub = 0 /\ it.term = CRLF /\ WellFormed(it.rec)
AllPlainWF(pl) == \A k \in 1 .. Len(pl) : IsPlainWF(pl[k])
ConsumerAccepted == \A k \in 1 .. Len(calls) : calls[k].result
Returned == pc = "idle" /\ ret # "none"

\* Index in steambuf (0-based) of the first byte of item k of the plan.
Offset(pl, k) == Len(Render(SubSeq(pl, 1, k - 1)))

\* C1: from START, with a consumer that always reports success, a stream of
\* well-formed records (types 0..5, CR LF separated) makes ihex_parser return
\* true, and the consumer is invoked exactly once per type-0 record, in input
\* order, with its payload, its byte count and the absolute address given by
\* the preceding type-2/type-4 records; never for another type.
C1_WellFormedStreamDelivered ==
    (/\ Returned
     /\ entry.state = START_CODE_STATE
     /\ entry.fp = USER_FP
     /\ AllPlainWF(plan)
     /\ ConsumerAccepted)
    => /\ ret = "true"
       /\ i = Len(steambuf)
       /\ Observed = Expected(plan, entry.address_hi, entry.seg)

C1_Witness ==
    /\ Returned /\ ret = "true"
    /\ entry.state = START_CODE_STATE /\ entry.fp = USER_FP
    /\ AllPlainWF(plan) /\ ConsumerAccepted
    /\ Len(plan) = 2 /\ plan[1].rec.type = 2 /\ plan[2].rec.type = 0
    /\ Len(calls) = 1 /\ calls[1].length = 3

\* Item k of the plan is reached with the decoder in START: the call began
\* in START and every item before k is a well-formed record with CR LF.
ReachedFromStart(pl, k) ==
    /\ k \in 1 .. Len(pl)
    /\ entry.state = START_CODE_STATE
    /\ AllPlainWF(SubSeq(pl, 1, k - 1))

\* No consumer invocation was triggered by a byte of item k or later.
NotDeliveredFrom(pl, k) == \A j \in 1 .. Len(calls) : calls[j].at < Offset(pl, k)

\* A record that is well formed except that its bytes do not sum to 0.
BadSum(r) ==
    /\ r.type \in 0 .. 5
    /\ r.bc = Len(r.payload)
    /\ RecSum(r) % 256 # 0

\* C2: a record whose decoded bytes (byte count, address bytes, type, payload,
\* checksum) do not sum to 0 modulo 256 makes ihex_parser return false at the
\* second checksum digit, and the consumer is not invoked for it; changing one
\* payload byte of an accepted record is such a case.
C2_BadChecksumRejected ==
    \A k \in 1 .. Len(plan) :
       (/\ Returned
        /\ ReachedFromStart(plan, k)
        /\ plan[k].sub = 0
        /\ BadSum(plan[k].rec)
        /\ ConsumerAccepted)
       => /\ ret = "false"
          /\ i = Offset(plan, k) + Len(Line(plan[k].rec)) - 1
          /\ NotDeliveredFrom(plan, k)

C2_Witness ==
    /\ Returned /\ ret = "false"
    /\ Len(plan) = 2
    /\ ReachedFromStart(plan, 1)
    /\ plan[1].rec \in FlipRecs /\ plan[1].rec.type = 0 /\ plan[1].rec.bc = 3
    /\ entry.fp = USER_FP
    /\ i = Len(Line(plan[1].rec)) - 1

IsHexDigit(ch) ==
    \/ ch \in CH_0 .. CH_9
    \/ ch \in CH_A .. CH_F
    \/ ch \in CH_a .. (CH_a + 5)

\* C3: an otherwise valid record in which one character of a hex field is
\* replaced by a non-zero byte that is no hexadecimal digit makes ihex_parser
\* return false.
C3_NonHexCharacterRejected ==
    \A k \in 1 .. Len(plan) :
       (/\ Returned
        /\ ReachedFromStart(plan, k)
        /\ WellFormed(plan[k].rec)
        /\ plan[k].sub >= 2 /\ ~plan[k].ins
        /\ plan[k].ch # CH_NUL /\ ~IsHexDigit(plan[k].ch))
       => ret = "false"

\* The characters that are no hexadecimal digits and that HexToDec reports as
\* invalid; a record with one of them in a hex field is rejected at that byte.
C3_InvalidCharacterRejected ==
    \A k \in 1 .. Len(plan) :
       (/\ Returned
        /\ ReachedFromStart(plan, k)
        /\ WellFormed(plan[k].rec)
        /\ plan[k].sub >= 2 /\ ~plan[k].ins
        /\ plan[k].ch # CH_NUL /\ HexToDec(plan[k].ch) = INVALID_HEX_CHAR
        /\ ConsumerAccepted)
       => /\ ret = "false"
          /\ i = Offset(plan, k) + plan[k].sub - 1

\* The streams of C4: a type-4 record with payload {0x10, 0x00}, then a
\* type-0 record with address field 0x0020, fed to a reset decoder with a
\* consumer registered.
C4_Case ==
    /\ Returned
    /\ entry = [state |-> START_CODE_STATE, address_hi |-> 0, seg |-> FALSE,
                fp |-> USER_FP]
    /\ Len(plan) = 2 /\ AllPlainWF(plan)
    /\ plan[1].rec.type = 4 /\ plan[1].rec.payload = <<16, 0>>
    /\ plan[2].rec.type = 0 /\ plan[2].rec.addr = 32

\* C4 as stated: the consumer is invoked with absolute address 0x00100020.
C4_LinearAddress_0x00100020 ==
    C4_Case => (Len(calls) = 1 /\ calls[1].address = W32(16, 32))

\* C4 amended: the two payload bytes are the big-endian address_hi 0x1000, and
\* the consumer is invoked once, at the second checksum digit of the type-0
\* record, with absolute address (0x1000 << 16) | 0x0020 = 0x10000020.
C4_LinearAddress_0x10000020 ==
    C4_Case => /\ Len(calls) = 1
               /\ calls[1].address = W32(4096, 32)
               /\ calls[1].at = Len(steambuf) - 3
               /\ calls[1].payload = plan[2].rec.payload

C4_Witness ==
    /\ C4_Case /\ ret = "true"
    /\ plan = <<Plain(RecLin), Plain(RecD20)>>
    /\ Len(calls) = 1 /\ calls[1].payload = <<255>>

\* C5: after a validated type-2 record with payload {h1, h0}, a validated
\* type-0 record with address field A is delivered with absolute address
\* ((h1*256 + h0) << 4) + A; for {0x10, 0x00} and A = 0x0020 that is 0x00010020.
C5_SegmentAddress ==
    (/\ Returned
     /\ entry.state = START_CODE_STATE /\ entry.fp = USER_FP
     /\ Len(plan) = 2 /\ AllPlainWF(plan)
     /\ plan[1].rec.type = 2 /\ plan[1].rec.bc = 2
     /\ plan[2].rec.type = 0)
    => LET h1 == plan[1].rec.payload[1]
           h0 == plan[1].rec.payload[2]
           A  == plan[2].rec.addr
           v  == (h1 * 256 + h0) * 16 + A
       IN  /\ Len(calls) = 1
           /\ calls[1].address = W32(v \div 65536, v % 65536)
           /\ (h1 = 16 /\ h0 = 0 /\ A = 32) => calls[1].address = W32(1, 32)

C5_Witness ==
    /\ Returned /\ ret = "true"
    /\ entry.state = START_CODE_STATE /\ entry.fp = USER_FP
    /\ plan = <<Plain(RecSeg), Plain(RecD20)>>
    /\ Len(calls) = 1 /\ calls[1].address = W32(1, 32)

\* A record declaring byte count 04 and carrying 3 payload byte-pairs before
\* its checksum pair.
Declares4Carries3(r) == r.bc = 4 /\ Len(r.payload) = 3

\* C6 as stated: every stream containing such a record makes ihex_parser return
\* false, whether CR LF, another record or the end of the fed bytes follows it,
\* and the consumer is never invoked for it.
C6_ShortRecordAlwaysRejected ==
    \A k \in 1 .. Len(plan) :
       (/\ Returned
        /\ ReachedFromStart(plan, k)
        /\ plan[k].sub = 0
        /\ Declares4Carries3(plan[k].rec))
       => /\ ret = "false"
          /\ NotDeliveredFrom(plan, k)

\* C6 amended: the checksum pair of such a record is taken as its fourth
\* payload byte, so ihex_parser returns false at the byte after it when that
\* byte is CR, LF or the ':' of another record; when the fed bytes end right
\* after the checksum pair ihex_parser returns true, the decoder left waiting
\* for the first checksum digit.  The consumer is never invoked for it.
C6_ShortRecordRejectedAtNextByte ==
    \A k \in 1 .. Len(plan) :
       (/\ Returned
        /\ ReachedFromStart(plan, k)
        /\ plan[k].sub = 0
        /\ Declares4Carries3(plan[k].rec)
        /\ ConsumerAccepted)
       => LET after == Offset(plan, k) + Len(Line(plan[k].rec)) IN
          /\ NotDeliveredFrom(plan, k)
          /\ (after < Len(steambuf) /\ steambuf[after + 1] \in {CH_CR, CH_LF, CH_COLON})
                => (ret = "false" /\ i = after)
          /\ after = Len(steambuf) => (ret = "true" /\ i = after)
          /\ lastop = "feed" =>
                /\ state = CHECKSUM_0_STATE
                /\ byte_count = 4
                /\ data_size_in_nibble = 8
                /\ data[3] = plan[k].rec.cs

C6_Witness ==
    /\ Returned /\ ret = "false" /\ lastop = "feed"
    /\ Len(plan) = 2
    /\ ReachedFromStart(plan, 1)
    /\ Declares4Carries3(plan[1].rec) /\ plan[1].term = <<>>
    /\ steambuf[i + 1] = CH_COLON
    /\ state = CHECKSUM_0_STATE

\* C7: in every decoder state a byte of value 0 makes ihex_parser return true
\* at once: no later byte of the call is processed and state, checksum, nibble
\* toggle, byte count, addresses and payload stay as they were; feeding
\* ":0000010" NUL "1FF" returns true with the decoder waiting for the second
\* record-type digit.
C7_NullByteStops ==
    /\ [][(pc = "loop" /\ i < Len(steambuf) /\ steambuf[i + 1] = CH_NUL)
            => (/\ pc' = "idle"
                /\ ret' = "true"
                /\ i' = i
                /\ calls' = calls
                /\ UNCHANGED decoder)]_vars
    /\ []((Returned /\ entry.state = START_CODE_STATE /\ plan = <<NulExample>>)
            => (/\ ret = "true"
                /\ i = 8
                /\ lastop = "feed" => state = RECORD_TYPE_1_STATE))

C7_Witness ==
    /\ Returned /\ ret = "true" /\ lastop = "feed"
    /\ i < Len(steambuf) /\ steambuf[i + 1] = CH_NUL
    /\ i + 1 < Len(steambuf)
    /\ state = DATA_STATE /\ calc_cs_toogle /\ calc_cs # 0

(***************************************************************************)
(* A whole call of ihex_parser as a function of the decoder state, the     *)
(* registered callback, the buffer and what the consumer answers (pol: its *)
(* answers in order, true once they are used up): the loop of lines        *)
(* 142-302 folded over the buffer with LoopBody.  It yields the value      *)
(* returned and the consumer invocations made.                             *)
(***************************************************************************)
RECURSIVE RunFrom(_, _, _, _, _, _)
RunFrom(p, fp, buf, k, pol, cs) ==
    IF k > Len(buf) THEN [ret |-> "true", calls |-> cs]
    ELSE LET cbres == IF pol = <<>> THEN TRUE ELSE Head(pol)
             s     == LoopBody(p, buf[k], fp, cbres)
             cs2   == IF s.called
                      THEN Append(cs, [address |-> s.address,
                                       payload |-> Payload(s.p.data, s.length),
                                       length |-> s.length])
                      ELSE cs
             pol2  == IF s.called /\ pol # <<>> THEN Tail(pol) ELSE pol
         IN  IF s.out = "continue" THEN RunFrom(s.p, fp, buf, k + 1, pol2, cs2)
             ELSE [ret |-> s.out, calls |-> cs2]

Run(p, fp, buf, pol) == RunFrom(p, fp, buf, 1, pol, <<>>)

\* Streams fed after a reset: a valid two-record stream (a data record,
\* delivered at the address the addressing state decides, then EOF), and a
\* stream that starts inside a record.
ResetStreams ==
    { Render(<<Plain(RecD20), Plain(RecEOF)>>),
      <<CH_0, CH_0>> \o Render(<<Plain(RecD20)>>) }
ConsumerAnswers == { <<>>, <<FALSE>> }

\* What a freshly initialised decoder does with them.
FreshRun ==
    [fp \in {NULL_FP, USER_FP} |->
       [buf \in ResetStreams |->
          [pol \in ConsumerAnswers |-> Run(StaticInit, fp, buf, pol)]]]

\* C8: after ihex_reset_state, whatever the decoder went through before
\* (mid-record, a failed call, segmented mode with a non-zero address_hi),
\* feeding a stream gives the return value and the consumer invocations
\* (address, payload, length) that a freshly initialised decoder with the same
\* consumer gives.
C8_ResetForgetsHistory ==
    (pc = "idle" /\ lastop = "reset")
    => /\ \A buf \in ResetStreams, pol \in ConsumerAnswers :
             Run(P, callback_fp, buf, pol) = FreshRun[callback_fp][buf][pol]
       \* the stream decoded before the reset, decoded again
       /\ (/\ Returned /\ steambuf \in ResetStreams
           /\ entry = [state |-> START_CODE_STATE, address_hi |-> 0, seg |-> FALSE,
                       fp |-> callback_fp]
           /\ ConsumerAccepted)
          => Run(P, callback_fp, steambuf, <<>>) = [ret |-> ret, calls |-> Observed]

C8_Witness ==
    /\ pc = "idle" /\ lastop = "reset"
    /\ ret = "false"
    /\ Len(plan) >= 2 /\ plan[1] = Plain(RecSeg)
    /\ i > Offset(plan, 2) + 9
    /\ calc_cs_toogle /\ calc_cs # 0 /\ byte_count # 0 /\ data # ZeroData
    /\ callback_fp = USER_FP
    /\ Run(P, USER_FP, Render(<<Plain(RecD20), Plain(RecEOF)>>), <<>>).calls
         = <<[address |-> W32(0, 32), payload |-> <<255>>, length |-> 1]>>

\* The stream ":0300300002337A1E" CR LF ":00000001FF" CR LF.
C9Stream ==
    <<58, 48, 51, 48, 48, 51, 48, 48, 48, 48, 50, 51, 51, 55, 65, 49, 69, 13, 10,
      58, 48, 48, 48, 48, 48, 48, 48, 49, 70, 70, 13, 10>>

C9_Case ==
    /\ Returned
    /\ steambuf = C9Stream
    /\ entry = [state |-> START_CODE_STATE, address_hi |-> 0, seg |-> FALSE,
                fp |-> USER_FP]
    /\ ConsumerAccepted

\* C9 as stated: the call returns true, record 1 is handled as a type-2 record
\* with payload {0x02, 0x33} (address_hi becomes 0x0233, segmented mode, no
\* consumer call), and record 2 is an EOF record with no consumer call.
C9_FirstRecordSetsSegment ==
    C9_Case => /\ ret = "true"
               /\ calls = <<>>
               /\ lastop = "feed" => (address_hi = 563 /\ ex_segment_addr_mode)

\* C9 amended: the call returns true; record 1 has byte count 03, address
\* field 0x0030 and type 00, so it is a data record, delivered once with
\* absolute address 0x00000030 and payload {0x02, 0x33, 0x7A}; address_hi stays
\* 0 in linear mode; record 2 is an EOF record with no consumer call.
C9_FirstRecordIsData ==
    C9_Case => /\ ret = "true"
               /\ i = Len(C9Stream)
               /\ Observed = <<[address |-> W32(0, 48), payload |-> <<2, 51, 122>>,
                                length |-> 3]>>
               /\ calls[1].at = 16
               /\ lastop = "feed" =>
                     /\ address_hi = 0 /\ ~ex_segment_addr_mode
                     /\ state = START_CODE_STATE
                     /\ record_type = 1 /\ byte_count = 0

C9_Witness ==
    /\ C9_Case /\ lastop = "feed" /\ ret = "true"
    /\ plan = <<Plain(RecC9a), Plain(RecEOF)>>
    /\ Len(calls) = 1

\* C10: when the consumer reports failure for a validated type-0 record,
\* ihex_parser returns false at that byte (the second checksum digit of the
\* record): no later byte of the call is processed and no later record of the
\* call is delivered.
C10_ConsumerFailureStops ==
    \A k \in 1 .. Len(calls) :
       ~calls[k].result
       => /\ k = Len(calls)
          /\ pc = "idle"
          /\ ret = "false"
          /\ i = calls[k].at
          /\ lastop = "feed" => (state = CHECKSUM_1_STATE /\ record_type = 0)

C10_Witness ==
    /\ Returned /\ ret = "false"
    /\ Len(plan) = 2 /\ AllPlainWF(plan)
    /\ plan[1].rec.type = 0 /\ plan[2].rec.type = 0
    /\ Len(calls) = 1 /\ ~calls[1].result
    /\ i = Len(Line(plan[1].rec)) - 1

(***************************************************************************)
(* The decoder without a consumer (callback_fp = NULL_FP).                 *)
(***************************************************************************)

\* Item k of the plan is a well-formed type-0 record in which one character
\* of a hex field is replaced by the non-zero byte ch.
DataRecordWithBadDigit(it) ==
    /\ WellFormed(it.rec) /\ it.rec.type = 0
    /\ it.sub >= 2 /\ ~it.ins
    /\ it.ch # CH_NUL

\* C11: with no consumer registered, type-0 records are validated all the
\* same: a stream of well-formed records makes ihex_parser return true with
\* the decoder back in START, a type-0 record with a wrong checksum or with a
\* character that is no hexadecimal digit in a hex field makes it return
\* false, and no consumer invocation takes place.
C11_NullHandlerValidates ==
    (Returned /\ entry.fp = NULL_FP /\ entry.state = START_CODE_STATE)
    => /\ calls = <<>>
       /\ AllPlainWF(plan)
            => (ret = "true" /\ i = Len(steambuf)
                /\ (lastop = "feed" => state = START_CODE_STATE))
       /\ \A k \in 1 .. Len(plan) :
            (/\ ReachedFromStart(plan, k)
             /\ plan[k].rec.type = 0
             /\ \/ plan[k].sub = 0 /\ BadSum(plan[k].rec)
                \/ DataRecordWithBadDigit(plan[k]) /\ ~IsHexDigit(plan[k].ch))
            => ret = "false"

\* The same with the bad digit taken from the characters HexToDec reports as
\* invalid; the record is then rejected at that character.
C11_NullHandlerRejectsInvalid ==
    (Returned /\ entry.fp = NULL_FP /\ entry.state = START_CODE_STATE)
    => /\ calls = <<>>
       /\ AllPlainWF(plan)
            => (ret = "true" /\ i = Len(steambuf)
                /\ (lastop = "feed" => state = START_CODE_STATE))
       /\ \A k \in 1 .. Len(plan) :
            (/\ ReachedFromStart(plan, k)
             /\ plan[k].rec.type = 0
             /\ \/ plan[k].sub = 0 /\ BadSum(plan[k].rec)
                \/ /\ DataRecordWithBadDigit(plan[k])
                   /\ HexToDec(plan[k].ch) = INVALID_HEX_CHAR)
            => ret = "false"

\* A type-0 record with 'g' in a hex field was fed with no consumer
\* registered, and ihex_parser returned true.
C11_LetterAccepted ==
    /\ Returned /\ ret = "true"
    /\ entry.fp = NULL_FP /\ entry.state = START_CODE_STATE
    /\ Len(plan) = 1
    /\ DataRecordWithBadDigit(plan[1]) /\ plan[1].ch = 103
    /\ calls = <<>>

(***************************************************************************)
(* The order of the fields of a record.                                    *)
(***************************************************************************)

\* The loop is about to handle a byte.
AtByte == pc = "loop" /\ i < Len(steambuf)

\* C15: after ':' in START the decoder takes exactly two byte-count digits,
\* four address digits, two type digits, 2 * byte_count payload digits and two
\* checksum digits, in this order: every accepted byte moves the state one
\* field position on, DATA is entered with an empty payload counter and left
\* exactly when it reaches 2 * byte_count, DATA is skipped when the byte count
\* is 0, and the decoder goes back to START only from the second checksum
\* digit of a record that passed the checks.
C15_FieldOrder ==
    [][ AtByte =>
          /\ (state = START_CODE_STATE /\ state' # state)
               => (state' = BYTE_COUNT_0_STATE /\ steambuf[i + 1] = CH_COLON)
          /\ (state \in BYTE_COUNT_0_STATE .. RECORD_TYPE_0_STATE /\ pc' = "loop")
               => state' = state + 1
          /\ (state = RECORD_TYPE_1_STATE /\ pc' = "loop")
               => /\ byte_count # 0 => state' = DATA_STATE
                  /\ byte_count = 0 => state' = CHECKSUM_0_STATE
                  /\ data_size_in_nibble = 0
          /\ (state = DATA_STATE /\ pc' = "loop")
               => /\ data_size_in_nibble' = data_size_in_nibble + 1
                  /\ data_size_in_nibble' < 2 * byte_count => state' = DATA_STATE
                  /\ data_size_in_nibble' = 2 * byte_count => state' = CHECKSUM_0_STATE
                  /\ data_size_in_nibble' <= 2 * byte_count
          /\ (state = CHECKSUM_0_STATE /\ pc' = "loop")
               => state' = CHECKSUM_1_STATE
          /\ (state = CHECKSUM_1_STATE /\ pc' = "loop")
               => /\ state' = START_CODE_STATE
                  /\ calc_cs' = 0
                  /\ data_size_in_nibble = 2 * byte_count
          /\ (state # START_CODE_STATE /\ state' = START_CODE_STATE)
               => (state = CHECKSUM_1_STATE /\ pc' = "loop")
          /\ pc' = "idle" => state' = state
          /\ byte_count' # byte_count
               => state \in {START_CODE_STATE, BYTE_COUNT_0_STATE, BYTE_COUNT_1_STATE}
      ]_vars

\* A record with byte count 0 went from the type field straight to the
\* checksum field: its first checksum digit is the tenth byte of the line.
C15_Witness ==
    /\ AtByte
    /\ entry.state = START_CODE_STATE
    /\ state = CHECKSUM_0_STATE /\ byte_count = 0 /\ data_size_in_nibble = 0
    /\ i = 9 /\ steambuf[1] = CH_COLON

(***************************************************************************)
(* Decoding of hex digits.                                                 *)
(***************************************************************************)

\* The value of a hexadecimal digit character.
NibbleOf(ch) ==
    IF ch \in CH_0 .. CH_9 THEN ch - CH_0
    ELSE IF ch \in CH_A .. CH_F THEN ch - CH_A + 10
    ELSE ch - CH_a + 10

\* The byte just consumed was accepted in a hex field: the call began in
\* START, so a state past BYTE_COUNT_0 is reached by a hex-field byte only.
DigitAccepted ==
    /\ pc = "loop" /\ i > 0
    /\ entry.state = START_CODE_STATE
    /\ state \in BYTE_COUNT_1_STATE .. CHECKSUM_1_STATE

\* C16: every character accepted in a hex field decodes to a nibble 0..15
\* ('0'-'9' to 0-9, letters to 10-15), so that an assembled byte is 16 times
\* its high nibble plus its low nibble: after the two byte-count digits,
\* byte_count is that value of the two characters.
C16_NibbleRange ==
    DigitAccepted
    => /\ HexToDec(steambuf[i]) \in 0 .. 15
       /\ state = ADDR_0_STATE
            => /\ NibbleOf(steambuf[i - 1]) \in 0 .. 15
               /\ NibbleOf(steambuf[i]) \in 0 .. 15
               /\ byte_count = 16 * NibbleOf(steambuf[i - 1]) + NibbleOf(steambuf[i])

\* The same for the characters '0'-'9', 'A'-'F', 'a'-'f' only.
C16_HexDigitsDecode ==
    (DigitAccepted /\ IsHexDigit(steambuf[i]))
    => /\ HexToDec(steambuf[i]) = NibbleOf(steambuf[i])
       /\ HexToDec(steambuf[i]) \in 0 .. 15
       /\ (state = ADDR_0_STATE /\ IsHexDigit(steambuf[i - 1]))
            => byte_count = 16 * NibbleOf(steambuf[i - 1]) + NibbleOf(steambuf[i])

\* The byte-count digits "0g" were accepted and assembled to 0x10.
C16_LetterAssembled ==
    /\ DigitAccepted /\ state = ADDR_0_STATE
    /\ steambuf[i - 1] = CH_0 /\ steambuf[i] = 103
    /\ byte_count = 16

(***************************************************************************)
(* The record type field.                                                  *)
(***************************************************************************)

\* Addressing state after the records of pl, read from the records.
RECURSIVE RefAddressing(_, _, _)
RefAddressing(pl, hi, seg) ==
    IF pl = <<>> THEN [hi |-> hi, seg |-> seg]
    ELSE LET r == Head(pl).rec IN
         IF r.type = 2 THEN RefAddressing(Tail(pl), Pay16(r.payload), TRUE)
         ELSE IF r.type = 4 THEN RefAddressing(Tail(pl), Pay16(r.payload), FALSE)
         ELSE RefAddressing(Tail(pl), hi, seg)

\* The type digits the decoder lets pass as second digit.
KnownTypes == {0, 1, 2, 3, 4, 5, 14}

\* C17: ihex_parser returns false at the first type digit when it is not 0,
\* and at the second when it decodes to a value outside {0..5, 0xE}; a record
\* of type 0E with matching byte count and checksum is accepted: the loop
\* goes on past it, the consumer is not invoked for it and address_hi and the
\* addressing mode stay what the records before it made them.
C17_RecordTypeValidated ==
    \A k \in 1 .. Len(plan) :
       (Returned /\ ReachedFromStart(plan, k) /\ ConsumerAccepted)
       => LET it  == plan[k]
              r   == it.rec
              off == Offset(plan, k)
              d0  == IF it.sub = 8 THEN HexToDec(it.ch) ELSE r.type \div 16
              d1  == IF it.sub = 9 THEN HexToDec(it.ch) ELSE r.type % 16
              untouched == (it.sub = 0 \/ it.sub >= 8) /\ ~it.ins
                              /\ ~(it.sub \in {8, 9} /\ it.ch = CH_NUL)
          IN  /\ (untouched /\ d0 # 0)
                   => (ret = "false" /\ i = off + 7)
              /\ (untouched /\ d0 = 0 /\ d1 \notin KnownTypes)
                   => (ret = "false" /\ i = off + 8)
              /\ (it.sub = 0 /\ r.type = 14 /\ r.bc = Len(r.payload)
                    /\ RecSum(r) % 256 = 0 /\ it.term = CRLF
                    /\ AllPlainWF(SubSeq(plan, k + 1, Len(plan))))
                   => /\ ret = "true" /\ i = Len(steambuf)
                      /\ \A j \in 1 .. Len(calls) :
                            \/ calls[j].at < off
                            \/ calls[j].at >= Offset(plan, k + 1)
                      /\ entry.fp = USER_FP
                           => Observed = Expected(SubSeq(plan, 1, k - 1) \o
                                                  SubSeq(plan, k + 1, Len(plan)),
                                                  entry.address_hi, entry.seg)
                      /\ lastop = "feed"
                           => LET a == RefAddressing(SubSeq(plan, 1, k - 1),
                                                     entry.address_hi, entry.seg)
                              IN  address_hi = a.hi /\ ex_segment_addr_mode = a.seg

\* A type-0E record with two payload bytes was accepted between a type-2
\* record and a data record, and the data record was delivered.
C17_Witness ==
    /\ Returned /\ ret = "true" /\ lastop = "feed"
    /\ entry.state = START_CODE_STATE /\ entry.fp = USER_FP
    /\ Len(plan) = 3
    /\ plan[1] = Plain(RecSeg) /\ plan[2] = Plain(RecTypeE) /\ plan[3] = Plain(RecD20)
    /\ Len(calls) = 1
    /\ address_hi = 4096 /\ ex_segment_addr_mode

(***************************************************************************)
(* The payload buffer.                                                     *)
(***************************************************************************)

\* C19: whatever byte count 0..255 a record declares, the index of every
\* write into data (taken in DATA, data_size_in_nibble >> 1) is below
\* IHEX_DATA_SIZE and fits the 8-bit index, data_size_in_nibble never exceeds
\* 2 * IHEX_DATA_SIZE, and no record is cut short: the checksum field is
\* reached with exactly 2 * byte_count payload nibbles stored, and a delivered
\* record has its declared length and all bytes of the line.
C19_PayloadBufferSafe ==
    /\ byte_count \in 0 .. 255
    /\ data_size_in_nibble <= 2 * IHEX_DATA_SIZE
    /\ state = DATA_STATE
         => /\ Shr(data_size_in_nibble, 1) < IHEX_DATA_SIZE
            /\ U8(Shr(data_size_in_nibble, 1)) = Shr(data_size_in_nibble, 1)
            /\ data_size_in_nibble < 2 * byte_count
    /\ (state \in {CHECKSUM_0_STATE, CHECKSUM_1_STATE} /\ entry.state = START_CODE_STATE
          /\ pc = "loop")
         => data_size_in_nibble = 2 * byte_count
    /\ \A k \in 1 .. Len(plan) :
          (/\ Returned /\ ret = "true" /\ i = Len(steambuf)
           /\ entry.fp = USER_FP
           /\ AllPlainWF(plan)
           /\ plan[k].rec.type = 0)
          => \E j \in 1 .. Len(calls) :
                /\ calls[j].length = plan[k].rec.bc
                /\ calls[j].payload = plan[k].rec.payload

\* The decoder is about to store the last nibble of a 255-byte record, at
\* index 254.
C19_Witness ==
    /\ AtByte /\ state = DATA_STATE
    /\ byte_count = IHEX_DATA_SIZE
    /\ data_size_in_nibble = 2 * IHEX_DATA_SIZE - 1
    /\ Shr(data_size_in_nibble, 1) = IHEX_DATA_SIZE - 1

(***************************************************************************)
(* Sessions of several calls.                                              *)
(***************************************************************************)

\* ihex_parser as a function that also yields the decoder state it leaves.
RECURSIVE RunAllFrom(_, _, _, _, _, _)
RunAllFrom(p, fp, buf, k, pol, cs) ==
    IF k > Len(buf) THEN [ret |-> "true", calls |-> cs, p |-> p]
    ELSE LET cbres == IF pol = <<>> THEN TRUE ELSE Head(pol)
             s     == LoopBody(p, buf[k], fp, cbres)
             cs2   == IF s.called
                      THEN Append(cs, [address |-> s.address,
                                       payload |-> Payload(s.p.data, s.length),
                                       length |-> s.length])
                      ELSE cs
             pol2  == IF s.called /\ pol # <<>> THEN Tail(pol) ELSE pol
         IN  IF s.out = "continue" THEN RunAllFrom(s.p, fp, buf, k + 1, pol2, cs2)
             ELSE [ret |-> s.out, calls |-> cs2, p |-> s.p]

RunAll(p, fp, buf, pol) == RunAllFrom(p, fp, buf, 1, pol, <<>>)

\* The session so far: the bytes handed to ihex_parser, the consumer
\* invocations, and whether every call returned true.
SessionFed == SubSeq(sess.stream, sess.start + 1, sess.pos)
SessionCalls == sess.hist \o CallsInStream
SessionObserved ==
    [k \in 1 .. Len(SessionCalls) |->
        [address |-> SessionCalls[k].address, payload |-> SessionCalls[k].payload,
         length |-> SessionCalls[k].length]]
SessionOk == sess.fails = 0 /\ ret # "false"

\* C12: a stream without NUL bytes fed in several calls, cut anywhere (one
\* byte per call and cuts between the two digits of a pair included), with
\* every call returning true, has the effect of the same bytes fed in one
\* call: that call returns true too, the consumer invocations are the same in
\* the same order, and the decoder is left in the same state.
C12_ChunkingIndependent ==
    (/\ pc = "idle" /\ fed
     /\ SessionOk
     /\ \A k \in 1 .. Len(SessionFed) : SessionFed[k] # CH_NUL)
    => LET one == RunAll(sess.base, callback_fp, SessionFed, <<>>)
       IN  /\ one.ret = "true"
           /\ one.calls = SessionObserved
           /\ one.p = P

\* A session of at least three calls, the last of one byte ending between
\* the two digits of a pair, after a record has been delivered.
C12_Witness ==
    /\ pc = "idle" /\ fed /\ SessionOk
    /\ Len(steambuf) = 1
    /\ sess.pos - sess.start >= 20
    /\ Len(sess.hist) = 1 /\ sess.hist[1].at < sess.pos - 2
    /\ calc_cs_toogle
    /\ state = DATA_STATE

\* C13: over the calls of a session (no reset), address_hi and the
\* addressing mode change only in the step that handles the second checksum
\* digit of a type-2 or type-4 record whose byte count matches and whose bytes
\* sum to 0; they then become the record's first two payload bytes and the
\* record's mode.  Records of type 0, 1, 3, 5 and 0E and type-2/type-4 records
\* that fail leave both as they are.
C13_AddressingFrame ==
    [][ (address_hi' # address_hi \/ ex_segment_addr_mode' # ex_segment_addr_mode)
        => \/ pc = "idle" /\ lastop' = "reset"
           \/ /\ AtByte
              /\ state = CHECKSUM_1_STATE
              /\ record_type \in {2, 4}
              /\ data_size_in_nibble = 2 * byte_count
              /\ calc_cs' = 0
              /\ pc' = "loop" /\ state' = START_CODE_STATE
              /\ address_hi' = data[0] * 256 + data[1]
              /\ ex_segment_addr_mode' = (record_type = 2)
      ]_vars

\* After a validated type-2 record, a type-4 record with a wrong checksum
\* was rejected and the segment base 0x1000 is still in force.
C13_Witness ==
    /\ pc = "idle" /\ ret = "false"
    /\ plan = <<Plain(RecSeg), BadLin, Plain(RecD20)>>
    /\ sess.start = 0
    /\ state = CHECKSUM_1_STATE /\ record_type = 4 /\ calc_cs # 0
    /\ address_hi = 4096 /\ ex_segment_addr_mode

\* a is an initial part of b.
IsPrefix(a, b) == Len(a) <= Len(b) /\ SubSeq(b, 1, Len(a)) = a

\* The invocations of the session (obs lists them without their results) up
\* to and including the first one the consumer rejected.
UpToFirstRejection(obs) ==
    LET R == { h \in 1 .. Len(SessionCalls) : ~SessionCalls[h].result } IN
    IF R = {} THEN obs
    ELSE SubSeq(obs, 1, CHOOSE h \in R : \A g \in R : h <= g)

\* A record the decoder accepts, followed by CR LF.
IsPlainValid(it) ==
    /\ it.sub = 0 /\ it.term = CRLF
    /\ it.rec.type \in KnownTypes
    /\ it.rec.bc = Len(it.rec.payload)
    /\ RecSum(it.rec) % 256 = 0

\* The session began at the start of item k of its plan, or inside the CR LF
\* before it, and all items from k on are accepted records.
SessionFromItem(k) ==
    /\ k \in 1 .. Len(sess.plan)
    /\ sess.start <= Offset(sess.plan, k)
    /\ sess.start >= (IF k = 1 THEN 0 ELSE Offset(sess.plan, k) - 2)
    /\ \A j \in k .. Len(sess.plan) : IsPlainValid(sess.plan[j])

\* C14: every type-0 record delivered in a session is delivered at the
\* address its 16-bit address field makes with the address_hi and mode of the
\* latest validated type-2/type-4 record of the session (address_hi 0, linear
\* mode, when there is none since the reset or the start), (address_hi << 4)
\* + address in segment mode and (address_hi << 16) | address in linear mode,
\* whatever data, end-of-file, start-address or other records lie between.
\* The records are read off the stream for the invocations up to the first
\* one the consumer rejects; what is delivered after a rejection is the
\* matter of C20.
C14_StickyAddressHigh ==
    \A k \in 1 .. Len(sess.plan) :
       (fed /\ SessionFromItem(k))
       => LET want == Expected(SubSeq(sess.plan, k, Len(sess.plan)),
                               sess.base.address_hi, sess.base.ex_segment_addr_mode)
          IN  /\ IsPrefix(UpToFirstRejection(SessionObserved), want)
              /\ sess.base.address_hi = 0 /\ ~sess.base.ex_segment_addr_mode
              /\ (/\ pc = "idle" /\ SessionOk
                  /\ sess.pos = Len(sess.stream)
                  /\ callback_fp = USER_FP)
                   => SessionObserved = want

\* A type-2 record, a data record, a start-address record and an
\* end-of-file record were fed in several calls, and the data record after
\* them was delivered at (0x1000 << 4) + 0x0030.
C14_Witness ==
    /\ pc = "idle" /\ SessionOk /\ fed
    /\ SessionFromItem(1)
    /\ sess.pos = Len(sess.stream)
    /\ Len(steambuf) <= MaxChunk
    /\ Len(sess.plan) = 5 /\ sess.plan[1] = Plain(RecSeg)
    /\ Len(SessionCalls) = 2
    /\ SessionCalls[2].address = W32(1, 48)
    /\ SessionCalls[2].length = 3

(***************************************************************************)
(* Line breaks and other bytes between records.                            *)
(***************************************************************************)

\* C18: CR and LF are skipped in START and nowhere else.  In START they
\* leave the whole decoder state as it is and the loop goes on; in any other
\* state they make ihex_parser return false; in START a non-zero byte other
\* than ':', CR and LF makes it return false with the decoder still in START.
C18_LineBreaksChangeNothing ==
    [][ AtByte =>
          LET c == steambuf[i + 1] IN
          /\ (c \in {CH_CR, CH_LF} /\ state = START_CODE_STATE)
               => (pc' = "loop" /\ i' = i + 1 /\ decoder' = decoder)
          /\ (c \in {CH_CR, CH_LF} /\ state # START_CODE_STATE)
               => (pc' = "idle" /\ ret' = "false")
          /\ (state = START_CODE_STATE /\ c \notin {CH_NUL, CH_COLON, CH_CR, CH_LF})
               => (pc' = "idle" /\ ret' = "false" /\ state' = START_CODE_STATE)
      ]_vars

\* The same, with what a byte handled in START does to the checksum: CR and
\* LF in START leave state, byte count, addresses, mode, record type, payload
\* and nibble count as they are, and clear calc_cs and the nibble toggle.
C18_LineBreaksClearChecksum ==
    [][ AtByte =>
          LET c == steambuf[i + 1] IN
          /\ (c \in {CH_CR, CH_LF} /\ state = START_CODE_STATE)
               => /\ pc' = "loop" /\ i' = i + 1
                  /\ UNCHANGED <<state, byte_count, address_lo, address_hi,
                                 ex_segment_addr_mode, record_type, data,
                                 data_size_in_nibble, temp_cs>>
                  /\ calc_cs' = 0 /\ calc_cs_toogle' = FALSE
                  /\ calls' = calls
          /\ (c \in {CH_CR, CH_LF} /\ state # START_CODE_STATE)
               => (pc' = "idle" /\ ret' = "false")
          /\ (state = START_CODE_STATE /\ c \notin {CH_NUL, CH_COLON, CH_CR, CH_LF})
               => (pc' = "idle" /\ ret' = "false" /\ state' = START_CODE_STATE)
      ]_vars

\* After a record with a wrong checksum and ihex_reset_state, the decoder
\* has skipped a CR in START and the stale checksum is gone.
C18_Witness ==
    /\ pc = "loop" /\ i >= 1
    /\ steambuf[i] = CH_CR
    /\ state = START_CODE_STATE
    /\ sess.start > 0 /\ sess.pos - Len(steambuf) = sess.start
    /\ sess.base.calc_cs # 0
    /\ calc_cs = 0

(***************************************************************************)
(* Delivery across calls.                                                  *)
(***************************************************************************)

\* Between the bytes at stream offsets a and b (a < b) lies a complete
\* record: a ':' and at least the ten characters of an empty record after it,
\* the last of them at b.
RecordBetween(a, b) ==
    \E q \in (a + 1) .. (b - 10) : sess.stream[q + 1] = CH_COLON

\* C20: over the calls of a session, calls after a consumer rejection
\* included, the consumer is invoked at most once per record fed: between two
\* invocations a complete new record starting with ':' has been fed.
C20_AtMostOnceDelivery ==
    \A j \in 1 .. Len(SessionCalls) :
       j > 1 => /\ SessionCalls[j - 1].at < SessionCalls[j].at
                /\ RecordBetween(SessionCalls[j - 1].at, SessionCalls[j].at)

\* The same for sessions in which the consumer has accepted every record
\* before the latest.
C20_AtMostOnceWhileAccepted ==
    \A j \in 1 .. Len(SessionCalls) :
       (j > 1 /\ \A h \in 1 .. (j - 1) : SessionCalls[h].result)
       => /\ SessionCalls[j - 1].at < SessionCalls[j].at
          /\ RecordBetween(SessionCalls[j - 1].at, SessionCalls[j].at)

\* The consumer rejected ":01002000FFE0", and the '0' fed by the next call
\* made the decoder hand it the same record again.
C20_DeliveredTwice ==
    /\ Len(SessionCalls) = 2
    /\ ~SessionCalls[1].result
    /\ SessionCalls[2].at = SessionCalls[1].at + 1
    /\ SessionCalls[2].address = SessionCalls[1].address
    /\ SessionCalls[2].payload = SessionCalls[1].payload
    /\ sess.stream[SessionCalls[2].at + 1] = CH_0
    /\ SubSeq(sess.stream, 1, 13) = Line(RecD20)

=============================================================================
